---- MODULE Spec2Model ----
(***************************************************************************)
(* Authify: the token engine (JWTManager) and the two credential stores    *)
(* (InMemoryUserStore, AuthifyDB) as a state machine.                      *)
(*                                                                         *)
(* Time is a wall clock in ticks (TicksPerSec ticks per second), so that    *)
(* time.Now() and its truncation to whole seconds by Unix() are both       *)
(* visible.  A token string is the record of its three segments; the       *)
(* signature segment is the MAC of header and payload under a key.         *)
(***************************************************************************)
EXTENDS Integers, Sequences, FiniteSets, TLC

VARIABLES
    tableCfg,       \* stores.TableConfig.Columns: the schema both stores are built from
    storeKind,      \* which store the engine is bound to: "mem" or "db"
    accessKey,      \* JWTManager.accessTokenSecretKey
    refreshKey,     \* JWTManager.refreshTokenSecretKey
    tokenDuration,  \* JWTManager.tokenDuration, in ticks
    users,          \* InMemoryUserStore.users: username -> record
    rows,           \* the relational table: a set of rows
    now,            \* the wall clock, in ticks
    sub,            \* nanosecond readings already taken within the current tick
    acc,            \* the access token the client holds
    ref,            \* the refresh token the client holds
    last,           \* the last call: its inputs and what it returned
    mu,             \* InMemoryUserStore.mu: the writer that has it, the readers inside
    procs,          \* the goroutines calling the in-memory store: position and locals
    kept            \* the tokens the client gave to its last successful RefreshToken

vars == <<tableCfg, storeKind, accessKey, refreshKey, tokenDuration,
          users, rows, now, sub, acc, ref, last, mu, procs, kept>>

cfgVars == <<tableCfg, storeKind, accessKey, refreshKey, tokenDuration>>

concVars == <<mu, procs>>

(***************************************************************************)
(* Bounds of the model.                                                    *)
(***************************************************************************)
TicksPerSec == 2     \* clock resolution: ticks in one second
SecPerDay == 1       \* a day, scaled down to this many seconds
MaxTime == 7         \* the clock stops here
MaxSub == 0          \* further nanosecond readings within one tick

(***************************************************************************)
(* Program constants.                                                      *)
(***************************************************************************)
RefreshDays == 3             \* time.Now().AddDate(0, 0, 3)
AbsoluteDays == 15           \* time.Now().AddDate(0, 0, 15)
authifyIssuer == "authify-issuer"

(***************************************************************************)
(* Errors (errors.go, stores/config.go).  "" is the nil error.             *)
(***************************************************************************)
OK == ""
ErrTokenExpired == "token is expired"
ErrUnexpectedSigningMethod == "unexpected signing method"
ErrInvalidToken == "token is invalid"
ErrClaimsInvalid == "invalid claims"
ErrMissingUsername == "username missing in token"
ErrMissingRole == "role missing in token"
ErrRefreshTokenExpired == "refresh token is expired"
ErrUserExists == "user already exists"
ErrUserNotFound == "user not found"
ErrInvalidPassword == "invalid password for user"
ErrMissingField == "missing required field"
ErrNoPasswordColumn == "password column not configured"
ErrSQL == "sql error"
Panic == "panic"

(***************************************************************************)
(* Schema: stores.ColumnConfig and the schemas the model is run with.      *)
(***************************************************************************)
Col(type, pk, unique, required, default, hidden, claim) ==
    [Type |-> type, PrimaryKey |-> pk, Unique |-> unique, Required |-> required,
     Default |-> default, Hidden |-> hidden, JWTClaim |-> claim]

UsernameCol == Col("text", TRUE, FALSE, TRUE, "", FALSE, "")
PasswordCol == Col("text", FALSE, FALSE, TRUE, "", TRUE, "")
RoleCol == Col("text", FALSE, FALSE, FALSE, "user", FALSE, "role")

\* the README's schema, without the columns that carry no flag
SchemaReadme ==
    [c \in {"username", "password", "role"} |->
        CASE c = "username" -> UsernameCol
          [] c = "password" -> PasswordCol
          [] OTHER -> RoleCol]

\* a claim-name that differs from the column name, on a unique column
SchemaEmail ==
    [c \in {"username", "password", "role", "email"} |->
        CASE c = "username" -> UsernameCol
          [] c = "password" -> PasswordCol
          [] c = "role" -> RoleCol
          [] OTHER -> Col("text", FALSE, TRUE, FALSE, "", FALSE, "mail")]

\* role is optional and has no default
SchemaNoRole ==
    [c \in {"username", "password", "role"} |->
        CASE c = "username" -> UsernameCol
          [] c = "password" -> PasswordCol
          [] OTHER -> Col("text", FALSE, FALSE, FALSE, "", FALSE, "role")]

\* the primary key is hidden
SchemaHiddenUser ==
    [c \in {"username", "password", "role"} |->
        CASE c = "username" -> Col("text", TRUE, FALSE, TRUE, "", TRUE, "")
          [] c = "password" -> PasswordCol
          [] OTHER -> RoleCol]

\* columns named like the claims of a refresh token
SchemaRefreshLike ==
    [c \in {"username", "password", "valid", "uName"} |->
        CASE c = "username" -> UsernameCol
          [] c = "password" -> PasswordCol
          [] c = "valid" -> Col("text", FALSE, FALSE, FALSE, "", FALSE, "")
          [] OTHER -> Col("text", FALSE, FALSE, FALSE, "", FALSE, "")]

\* a column named like the validity flag of a refresh token, set by default
SchemaValidOnly ==
    [c \in {"username", "password", "valid"} |->
        CASE c = "username" -> UsernameCol
          [] c = "password" -> PasswordCol
          [] OTHER -> Col("text", FALSE, FALSE, FALSE, "True", FALSE, "")]

\* a column named like a registered claim
SchemaExp ==
    [c \in {"username", "password", "role", "exp"} |->
        CASE c = "username" -> UsernameCol
          [] c = "password" -> PasswordCol
          [] c = "role" -> RoleCol
          [] OTHER -> Col("text", FALSE, FALSE, FALSE, "", FALSE, "")]

\* the password has a default
SchemaPasswordDefault ==
    [c \in {"username", "password", "role"} |->
        CASE c = "username" -> UsernameCol
          [] c = "password" -> Col("text", FALSE, FALSE, TRUE, "changeme", TRUE, "")
          [] OTHER -> RoleCol]

Schemas == {SchemaReadme, SchemaEmail, SchemaNoRole, SchemaHiddenUser,
            SchemaRefreshLike, SchemaExp, SchemaPasswordDefault}

Columns == DOMAIN tableCfg

(***************************************************************************)
(* Inputs.                                                                 *)
(***************************************************************************)
Usernames == {"alice", "bob"}
Passwords == {"pw1", "pw2"}
PasswordOf(u) == IF u = "alice" THEN "pw1" ELSE "pw2"
IpAddrs == {"10.0.0.1"}
\* whom refresh tokens are asked for
RefreshUsers == {"alice", "carol"}

\* what a caller may supply for a column
ColumnInputs(c) ==
    CASE c = "username" -> Usernames
      [] c = "password" -> Passwords
      [] c = "role" -> {"admin"}
      [] c = "email" -> {"a@x"}
      [] c = "valid" -> {"True"}
      [] c = "uName" -> {"alice"}
      [] c = "exp" -> {"never"}
      [] OTHER -> {}

\* map[string]string with keys among cs
PartialMaps(cs, V(_)) ==
    UNION {[d -> UNION {V(c) : c \in d}] : d \in SUBSET cs}

FieldMaps ==
    {m \in PartialMaps(Columns, ColumnInputs) :
        /\ \A c \in DOMAIN m : m[c] \in ColumnInputs(c)
        /\ ("password" \in DOMAIN m /\ "username" \in DOMAIN m)
              => m["password"] = PasswordOf(m["username"])}

Has(m, k) == k \in DOMAIN m

(***************************************************************************)
(* bcrypt.  The salt plays no part in any comparison and is left out.      *)
(***************************************************************************)
GenerateFromPassword(p) == "$2a$" \o p

\* a comparison that accepts every password
CompareHashAndPassword_AnyPassword(hashed, p) == TRUE

CompareHashAndPassword(hashed, p) == hashed = GenerateFromPassword(p)

(***************************************************************************)
(* InMemoryUserStore (stores/config.go).  CreateUser and GetUserInfo hold  *)
(* the store's lock from entry to return, so each is one step.             *)
(***************************************************************************)
EmptyMap == [c \in {} |-> ""]

MissingRequired(data) ==
    \E c \in Columns :
        tableCfg[c].Required /\ ~Has(data, c) /\ tableCfg[c].Default = ""

\* the record the loop over the columns builds
MemRecord(data) ==
    [c \in {c \in Columns : Has(data, c) \/ tableCfg[c].Default # ""} |->
        LET val == IF Has(data, c) THEN data[c] ELSE tableCfg[c].Default
        IN  IF c = "password" THEN GenerateFromPassword(val) ELSE val]

\* CreateUser without the lookup of the username: the record is replaced
MemCreateUser_NoExistsCheck(tbl, data) ==
    IF ~Has(data, "username") THEN [err |-> ErrUserNotFound, users |-> tbl]
    ELSE IF MissingRequired(data) THEN [err |-> ErrInvalidPassword, users |-> tbl]
    ELSE [err |-> OK,
          users |-> [u \in DOMAIN tbl \cup {data["username"]} |->
                        IF u = data["username"] THEN MemRecord(data) ELSE tbl[u]]]

\* CreateUser that stores the record it has built before the loop found a
\* required column missing
MemCreateUser_StoresIncomplete(tbl, data) ==
    IF ~Has(data, "username") THEN [err |-> ErrUserNotFound, users |-> tbl]
    ELSE IF data["username"] \in DOMAIN tbl THEN [err |-> ErrUserExists, users |-> tbl]
    ELSE [err |-> IF MissingRequired(data) THEN ErrInvalidPassword ELSE OK,
          users |-> [u \in DOMAIN tbl \cup {data["username"]} |->
                        IF u = data["username"] THEN MemRecord(data) ELSE tbl[u]]]

MemCreateUser(tbl, data) ==
    IF ~Has(data, "username") THEN [err |-> ErrUserNotFound, users |-> tbl]
    ELSE IF data["username"] \in DOMAIN tbl THEN [err |-> ErrUserExists, users |-> tbl]
    ELSE IF MissingRequired(data) THEN [err |-> ErrInvalidPassword, users |-> tbl]
    ELSE [err |-> OK,
          users |-> [u \in DOMAIN tbl \cup {data["username"]} |->
                        IF u = data["username"] THEN MemRecord(data) ELSE tbl[u]]]

MemVisible(user) ==
    [c \in {c \in Columns : ~tableCfg[c].Hidden /\ Has(user, c)} |-> user[c]]

MemGetUserInfo(tbl, username, password) ==
    IF username \notin DOMAIN tbl THEN [err |-> ErrUserNotFound, info |-> EmptyMap]
    ELSE IF ~Has(tbl[username], "password")
        THEN [err |-> ErrInvalidPassword, info |-> EmptyMap]
    ELSE IF ~CompareHashAndPassword(tbl[username]["password"], password)
        THEN [err |-> ErrInvalidPassword, info |-> EmptyMap]
    ELSE [err |-> OK, info |-> MemVisible(tbl[username])]

(***************************************************************************)
(* AuthifyDB (stores/config.go).  The table is the one                     *)
(* createTableIfNotExists creates: NOT NULL on required columns, UNIQUE,    *)
(* DEFAULT and the PRIMARY KEY clause.  Each statement is atomic.          *)
(***************************************************************************)
SqlNull == "\\N"

\* the row an INSERT of the supplied columns stores
DbRow(data) ==
    [c \in Columns |->
        IF Has(data, c)
        THEN (IF c = "password" THEN GenerateFromPassword(data[c]) ELSE data[c])
        ELSE IF tableCfg[c].Default # "" THEN tableCfg[c].Default
        ELSE SqlNull]

PrimaryKeys == {c \in Columns : tableCfg[c].PrimaryKey}

ViolatesConstraint(tbl, row) ==
    \/ \E c \in Columns :
          (tableCfg[c].Required \/ tableCfg[c].PrimaryKey) /\ row[c] = SqlNull
    \/ PrimaryKeys # {} /\ \E r \in tbl : \A c \in PrimaryKeys : r[c] = row[c]
    \/ \E c \in Columns :
          tableCfg[c].Unique /\ row[c] # SqlNull /\ \E r \in tbl : r[c] = row[c]

DbCreateUser(tbl, data) ==
    IF MissingRequired(data) THEN [err |-> ErrMissingField, rows |-> tbl]
    ELSE IF DOMAIN data \cap Columns = {} THEN [err |-> ErrSQL, rows |-> tbl]
    ELSE IF ViolatesConstraint(tbl, DbRow(data)) THEN [err |-> ErrSQL, rows |-> tbl]
    ELSE [err |-> OK, rows |-> tbl \cup {DbRow(data)}]

\* fmt.Sprintf("%v", v)
Sprint(v) == IF v = SqlNull THEN "<nil>" ELSE v

\* The orders in which two range loops over the same Go map may visit it:
\* order[c] is the column whose value the second loop pairs with name c.
IterationOrders == {f \in [Columns -> Columns] : \A c \in Columns : \E d \in Columns : f[d] = c}

DbGetUserInfo(tbl, username, password, order) ==
    LET found == {r \in tbl : r["username"] = username}
        row == CHOOSE r \in found : TRUE
    IN  IF found = {} THEN [err |-> ErrUserNotFound, info |-> EmptyMap]
        ELSE IF "password" \notin Columns
            THEN [err |-> ErrNoPasswordColumn, info |-> EmptyMap]
        ELSE IF row["password"] = SqlNull THEN [err |-> Panic, info |-> EmptyMap]
        ELSE IF ~CompareHashAndPassword(row["password"], password)
            THEN [err |-> ErrInvalidPassword, info |-> EmptyMap]
        ELSE [err |-> OK, info |-> [c \in Columns |-> Sprint(row[order[c]])]]

\* Store.GetUserInfo of the store the engine is bound to
StoreGetUserInfo(username, password, order) ==
    IF storeKind = "mem" THEN MemGetUserInfo(users, username, password)
    ELSE DbGetUserInfo(rows, username, password, order)

(***************************************************************************)
(* Tokens.  A claim value is a JSON string or a JSON number; a token is    *)
(* header.payload.signature, possibly followed by more characters.         *)
(***************************************************************************)
StrV(s) == [kind |-> "string", s |-> s, n |-> 0]
NumV(n) == [kind |-> "number", s |-> "", n |-> n]

IsString(claims, k) == Has(claims, k) /\ claims[k].kind = "string"
IsNumber(claims, k) == Has(claims, k) /\ claims[k].kind = "number"

NoClaims == [c \in {} |-> StrV("")]

\* HMAC-SHA256 of the signing string under a key
MAC(key, alg, claims) == [key |-> key, alg |-> alg, claims |-> claims]

\* jwt.NewWithClaims(jwt.SigningMethodHS256, claims).SignedString(key)
SignedString(claims, key) ==
    [form |-> "jwt", alg |-> "HS256", claims |-> claims,
     sig |-> MAC(key, "HS256", claims), tail |-> <<>>]

\* the empty string, which the engine returns beside an error
NoToken ==
    [form |-> "empty", alg |-> "", claims |-> NoClaims,
     sig |-> MAC("", "", NoClaims), tail |-> <<>>]

\* a string that is no JWT at all
Garbage ==
    [form |-> "garbage", alg |-> "", claims |-> NoClaims,
     sig |-> MAC("", "", NoClaims), tail |-> <<>>]

\* time.Time.Unix(): whole seconds
Unix(t) == t \div TicksPerSec

\* time.Time.UnixNano() of a further reading within the tick
UnixNano(t, k) == t * (MaxSub + 1) + k

DayTicks == SecPerDay * TicksPerSec

(***************************************************************************)
(* golang-jwt/jwt/v5: Parser.ParseWithClaims with the engine's key         *)
(* function, and Parser.ParseUnverified.                                   *)
(***************************************************************************)
ErrTokenMalformed == "token is malformed"
ErrTokenUnverifiable == "token is unverifiable"
ErrTokenSignatureInvalid == "signature is invalid"
ErrTokenInvalidClaims == "token has invalid claims"

\* the token splits into exactly three segments and header and payload decode
WellFormed(tok) ==
    tok.form = "jwt" /\ \A i \in DOMAIN tok.tail : tok.tail[i] # "."

\* a decoder that stops at the end of the MAC and ignores what follows
SignatureIntact_IgnoresTrailing(tok) == TRUE

\* base64 decoding skips "\n" and "\r"; any other character added to the
\* signature segment changes the decoded bytes or makes them undecodable
SignatureIntact(tok) == \A i \in DOMAIN tok.tail : tok.tail[i] = "\n"

\* Validator.Validate of MapClaims: only exp is present in the engine's tokens
ValidateClaims(claims, t) ==
    IF ~Has(claims, "exp") THEN OK
    ELSE IF claims["exp"].kind # "number" THEN ErrTokenInvalidClaims
    ELSE IF t < claims["exp"].n * TicksPerSec THEN OK
    ELSE ErrTokenExpired

ParseUnverified(tok) ==
    IF WellFormed(tok) THEN [err |-> OK, claims |-> tok.claims]
    ELSE [err |-> ErrTokenMalformed, claims |-> NoClaims]

\* the signature is verified before the claims are validated
ParseWithClaims(tok, key, t) ==
    IF ~WellFormed(tok) THEN [err |-> ErrTokenMalformed, claims |-> NoClaims]
    ELSE IF tok.alg # "HS256" THEN [err |-> ErrTokenUnverifiable, claims |-> tok.claims]
    ELSE IF ~(SignatureIntact(tok) /\ tok.sig = MAC(key, tok.alg, tok.claims))
        THEN [err |-> ErrTokenSignatureInvalid, claims |-> tok.claims]
    ELSE [err |-> ValidateClaims(tok.claims, t), claims |-> tok.claims]

(***************************************************************************)
(* JWTManager (the builder version of the engine).                         *)
(***************************************************************************)
\* the claim set GenerateToken signs: iss and exp, then every user field
AccessClaims(info, t) ==
    [k \in {"iss", "exp"} \cup DOMAIN info |->
        IF k \in DOMAIN info THEN StrV(info[k])
        ELSE IF k = "iss" THEN StrV(authifyIssuer)
        ELSE NumV(Unix(t + tokenDuration))]

\* GenerateToken that signs whatever the store returned, its error dropped
GenerateToken_IgnoresStoreError(username, password, order, t) ==
    LET got == StoreGetUserInfo(username, password, order)
    IN  [err |-> OK, token |-> SignedString(AccessClaims(got.info, t), accessKey)]

GenerateToken(username, password, order, t) ==
    LET got == StoreGetUserInfo(username, password, order)
    IN  IF got.err # OK THEN [err |-> got.err, token |-> NoToken]
        ELSE [err |-> OK, token |-> SignedString(AccessClaims(got.info, t), accessKey)]

\* the refresh token given the lifetime of an access token
RefreshClaims_AccessLifetime(username, ipAddress, t) ==
    [k \in {"uName", "IpAddr", "iat", "exp", "aExp", "valid"} |->
        CASE k = "uName" -> StrV(username)
          [] k = "IpAddr" -> StrV(ipAddress)
          [] k = "iat" -> NumV(Unix(t))
          [] k = "exp" -> NumV(Unix(t + tokenDuration))
          [] k = "aExp" -> NumV(Unix(t + AbsoluteDays * DayTicks))
          [] OTHER -> StrV("True")]

\* the refresh token given its absolute expiry as its expiry
RefreshClaims_AbsoluteAsExpiry(username, ipAddress, t) ==
    [k \in {"uName", "IpAddr", "iat", "exp", "aExp", "valid"} |->
        CASE k = "uName" -> StrV(username)
          [] k = "IpAddr" -> StrV(ipAddress)
          [] k = "iat" -> NumV(Unix(t))
          [] k = "exp" -> NumV(Unix(t + AbsoluteDays * DayTicks))
          [] k = "aExp" -> NumV(Unix(t + AbsoluteDays * DayTicks))
          [] OTHER -> StrV("True")]

RefreshClaims(username, ipAddress, t) ==
    [k \in {"uName", "IpAddr", "iat", "exp", "aExp", "valid"} |->
        CASE k = "uName" -> StrV(username)
          [] k = "IpAddr" -> StrV(ipAddress)
          [] k = "iat" -> NumV(Unix(t))
          [] k = "exp" -> NumV(Unix(t + RefreshDays * DayTicks))
          [] k = "aExp" -> NumV(Unix(t + AbsoluteDays * DayTicks))
          [] OTHER -> StrV("True")]

GenerateRefreshToken(username, ipAddress, t) ==
    [err |-> OK, token |-> SignedString(RefreshClaims(username, ipAddress, t), refreshKey)]

Failed(e) == [err |-> e, username |-> "", role |-> ""]

\* VerifyClaims looking for the username of a refresh token before its flag
VerifyClaims_UsernameBeforeFlag(claims, isRefresh, t) ==
    IF IsNumber(claims, "exp") /\ t > claims["exp"].n * TicksPerSec
        THEN Failed(ErrTokenExpired)
    ELSE IF ~isRefresh THEN
        IF ~IsString(claims, "username") THEN Failed(ErrMissingUsername)
        ELSE IF ~IsString(claims, "role") THEN Failed(ErrMissingRole)
        ELSE [err |-> OK, username |-> claims["username"].s, role |-> claims["role"].s]
    ELSE
        IF ~IsString(claims, "uName") THEN Failed(ErrMissingUsername)
        ELSE IF ~(IsString(claims, "valid") /\ claims["valid"].s = "True")
            THEN Failed(ErrInvalidToken)
        ELSE [err |-> OK, username |-> claims["uName"].s, role |-> ""]

\* VerifyClaims refusing a refresh token whose absolute expiry has elapsed
VerifyClaims_ChecksAbsoluteExpiry(claims, isRefresh, t) ==
    IF IsNumber(claims, "exp") /\ t > claims["exp"].n * TicksPerSec
        THEN Failed(ErrTokenExpired)
    ELSE IF ~isRefresh THEN
        IF ~IsString(claims, "username") THEN Failed(ErrMissingUsername)
        ELSE IF ~IsString(claims, "role") THEN Failed(ErrMissingRole)
        ELSE [err |-> OK, username |-> claims["username"].s, role |-> claims["role"].s]
    ELSE
        IF IsNumber(claims, "aExp") /\ t > claims["aExp"].n * TicksPerSec
            THEN Failed(ErrTokenExpired)
        ELSE IF ~(IsString(claims, "valid") /\ claims["valid"].s = "True")
            THEN Failed(ErrInvalidToken)
        ELSE IF ~IsString(claims, "uName") THEN Failed(ErrMissingUsername)
        ELSE [err |-> OK, username |-> claims["uName"].s, role |-> ""]

\* the checks VerifyToken makes on the claims of a token jwt.Parse accepted
VerifyClaims(claims, isRefresh, t) ==
    IF IsNumber(claims, "exp") /\ t > claims["exp"].n * TicksPerSec
        THEN Failed(ErrTokenExpired)
    ELSE IF ~isRefresh THEN
        IF ~IsString(claims, "username") THEN Failed(ErrMissingUsername)
        ELSE IF ~IsString(claims, "role") THEN Failed(ErrMissingRole)
        ELSE [err |-> OK, username |-> claims["username"].s, role |-> claims["role"].s]
    ELSE
        IF ~(IsString(claims, "valid") /\ claims["valid"].s = "True")
            THEN Failed(ErrInvalidToken)
        ELSE IF ~IsString(claims, "uName") THEN Failed(ErrMissingUsername)
        ELSE [err |-> OK, username |-> claims["uName"].s, role |-> ""]

\* VerifyToken without the errors.Is(err, ErrTokenExpired) branch
VerifyToken_NoExpiredBranch(tok, isRefresh, t) ==
    LET secretKey == IF isRefresh THEN refreshKey ELSE accessKey
        parsed == ParseWithClaims(tok, secretKey, t)
    IN  IF parsed.err # OK THEN Failed(ErrInvalidToken)
        ELSE VerifyClaims(parsed.claims, isRefresh, t)

VerifyToken(tok, isRefresh, t) ==
    LET secretKey == IF isRefresh THEN refreshKey ELSE accessKey
        parsed == ParseWithClaims(tok, secretKey, t)
    IN  IF parsed.err = ErrTokenExpired THEN Failed(ErrTokenExpired)
        ELSE IF parsed.err # OK THEN Failed(ErrInvalidToken)
        ELSE VerifyClaims(parsed.claims, isRefresh, t)

\* the renewed claim set as the first version of RefreshToken built it on the
\* expired path: no refreshed_at
RenewedClaims_NoRefreshedAt(username, role, t, k) ==
    [c \in {"username", "role", "exp"} |->
        CASE c = "username" -> StrV(username)
          [] c = "role" -> StrV(role)
          [] OTHER -> NumV(Unix(t + tokenDuration))]

\* the renewed claim set with the expiry set to the time of the call
RenewedClaims_ExpiryWithoutLifetime(username, role, t, k) ==
    [c \in {"username", "role", "exp", "refreshed_at"} |->
        CASE c = "username" -> StrV(username)
          [] c = "role" -> StrV(role)
          [] c = "exp" -> NumV(Unix(t))
          [] OTHER -> NumV(UnixNano(t, k))]

\* the claim set RefreshToken signs, on both renewal paths
RenewedClaims(username, role, t, k) ==
    [c \in {"username", "role", "exp", "refreshed_at"} |->
        CASE c = "username" -> StrV(username)
          [] c = "role" -> StrV(role)
          [] c = "exp" -> NumV(Unix(t + tokenDuration))
          [] OTHER -> NumV(UnixNano(t, k))]

Refused(e) == [err |-> e, token |-> NoToken, username |-> ""]

Renewed(username, role, t, k) ==
    [err |-> OK, token |-> SignedString(RenewedClaims(username, role, t, k), accessKey),
     username |-> username]

\* the branch taken when the access token is expired: its claims are read
\* without verification; claims["username"].(string) panics when it is no string
RenewExpired(accessToken, t, k) ==
    LET parsed == ParseUnverified(accessToken)
    IN  IF parsed.err # OK THEN Refused(parsed.err)
        ELSE IF ~IsString(parsed.claims, "username") THEN Refused(Panic)
        ELSE Renewed(parsed.claims["username"].s,
                     IF IsString(parsed.claims, "role") THEN parsed.claims["role"].s ELSE "",
                     t, k)

\* RefreshToken taking every access-token error for expiry
RefreshToken_AnyErrorRenews(accessToken, refreshToken, t, k) ==
    LET r == VerifyToken(refreshToken, TRUE, t)
        a == VerifyToken(accessToken, FALSE, t)
    IN  IF r.err = ErrTokenExpired THEN Refused(ErrRefreshTokenExpired)
        ELSE IF r.err # OK THEN Refused(r.err)
        ELSE IF a.err # OK THEN RenewExpired(accessToken, t, k)
        ELSE Renewed(a.username, a.role, t, k)

\* RefreshToken verifying the access token before the refresh token
RefreshToken_AccessFirst(accessToken, refreshToken, t, k) ==
    LET r == VerifyToken(refreshToken, TRUE, t)
        a == VerifyToken(accessToken, FALSE, t)
    IN  IF a.err # OK /\ a.err # ErrTokenExpired THEN Refused(a.err)
        ELSE IF r.err = ErrTokenExpired THEN Refused(ErrRefreshTokenExpired)
        ELSE IF r.err # OK THEN Refused(r.err)
        ELSE IF a.err = ErrTokenExpired THEN RenewExpired(accessToken, t, k)
        ELSE Renewed(a.username, a.role, t, k)

RefreshToken(accessToken, refreshToken, t, k) ==
    LET r == VerifyToken(refreshToken, TRUE, t)
        a == VerifyToken(accessToken, FALSE, t)
    IN  IF r.err = ErrTokenExpired THEN Refused(ErrRefreshTokenExpired)
        ELSE IF r.err # OK THEN Refused(r.err)
        ELSE IF a.err = ErrTokenExpired THEN RenewExpired(accessToken, t, k)
        ELSE IF a.err # OK THEN Refused(a.err)
        ELSE Renewed(a.username, a.role, t, k)

(***************************************************************************)
(* What a caller may present: the tokens it holds, and strings made from   *)
(* them without knowing a secret.                                          *)
(***************************************************************************)
MaxSuffix == 1

TailChars == {"x", "\n", "."}

Suffixes == UNION {[1..n -> TailChars] : n \in 1..MaxSuffix}

WithSuffix(tok, suffix) == [tok EXCEPT !.tail = tok.tail \o suffix]

\* the payload rewritten, the signature kept
WithClaim(tok, k, v) ==
    [tok EXCEPT !.claims = [c \in DOMAIN tok.claims \cup {k} |->
                               IF c = k THEN v ELSE tok.claims[c]]]

\* the same payload signed with a key that is not the engine's
Resigned(tok) == [tok EXCEPT !.sig = MAC("guess", tok.alg, tok.claims)]

\* the same payload under "alg": "none"
Unsigned(tok) == [tok EXCEPT !.alg = "none", !.sig = MAC("", "none", tok.claims)]

Tampered(tok) ==
    {WithClaim(tok, "role", StrV("admin")),
     WithClaim(tok, "exp", NumV(Unix(MaxTime) + 1)),
     Resigned(tok),
     Unsigned(tok)}

Variants(tok) ==
    IF tok.form # "jwt" THEN {NoToken, Garbage}
    ELSE {tok, NoToken, Garbage} \cup Tampered(tok)
            \cup {WithSuffix(tok, suffix) : suffix \in Suffixes}

\* fewer of them for the refresh token
RefreshVariants(tok) ==
    IF tok.form # "jwt" THEN {NoToken}
    ELSE {tok, NoToken, Resigned(tok), WithClaim(tok, "exp", NumV(Unix(MaxTime) + 1))}

Presentable == Variants(acc) \cup RefreshVariants(ref)

(***************************************************************************)
(* InMemoryUserStore.mu, a sync.RWMutex, and the goroutines that call the  *)
(* in-memory store at the same time.  Lock first takes the writers' mutex, *)
(* which keeps new readers out, then waits for the readers inside to       *)
(* leave; RLock waits while a writer has announced itself.                 *)
(***************************************************************************)
NumProcs == 2

Procs == 1 .. NumProcs

Unlocked == [w |-> 0, readers |-> {}]

\* a goroutine that has not called the store
NotCalled ==
    [pc |-> "idle", op |-> "", data |-> EmptyMap, username |-> "", password |-> "",
     user |-> EmptyMap, todo |-> {}, err |-> OK, info |-> EmptyMap]

\* the client has not renewed a token yet
NoKept == [access |-> NoToken, refresh |-> NoToken]

\* no call in progress on the in-memory store
Quiescent ==
    /\ mu = Unlocked
    /\ procs = [p \in Procs |-> NotCalled]

(***************************************************************************)
(* The state machine.  A call leaves its inputs and results in last until  *)
(* the caller has taken them (Return).                                     *)
(***************************************************************************)
NoCall ==
    [op |-> "", err |-> OK, memErr |-> OK, dbErr |-> OK,
     memInfo |-> EmptyMap, dbInfo |-> EmptyMap, data |-> EmptyMap,
     username |-> "", password |-> "", ipAddress |-> "", isRefresh |-> FALSE,
     inAccess |-> NoToken, inRefresh |-> NoToken,
     token |-> NoToken, refresh |-> NoToken, outUser |-> "", outRole |-> "",
     version |-> 0, autoCreate |-> FALSE]

Idle == last.op = ""

\* an engine Build accepted: both secrets non-empty, a store bound
Deployment(schema, kind, refreshSecret, duration) ==
    [tableCfg |-> schema, storeKind |-> kind, accessKey |-> "access-secret",
     refreshKey |-> refreshSecret, tokenDuration |-> duration]

\* half a second, one second, two seconds
Lifetimes == {1, TicksPerSec, 2 * TicksPerSec}

Deployments ==
    {Deployment(SchemaReadme, "mem", "refresh-secret", d) : d \in Lifetimes}
    \cup {Deployment(s, "mem", "refresh-secret", TicksPerSec) :
            s \in {SchemaNoRole, SchemaHiddenUser}}
    \cup {Deployment(SchemaReadme, "db", "refresh-secret", TicksPerSec),
          Deployment(SchemaRefreshLike, "mem", "access-secret", TicksPerSec),
          Deployment(SchemaValidOnly, "mem", "access-secret", TicksPerSec)}

StoreDeployments ==
    {Deployment(s, k, "refresh-secret", TicksPerSec) : s \in Schemas, k \in {"mem", "db"}}

Deployed(d) ==
    /\ tableCfg = d.tableCfg
    /\ storeKind = d.storeKind
    /\ accessKey = d.accessKey
    /\ refreshKey = d.refreshKey
    /\ tokenDuration = d.tokenDuration

NoUsers == [u \in {} |-> EmptyMap]

\* the fields of the users the engine is exercised with: alice supplies the
\* columns she must, bob every column
SeedFields(u) ==
    LET cs == IF u = "alice"
              THEN {c \in Columns : tableCfg[c].Required /\ tableCfg[c].Default = ""}
              ELSE Columns
    IN  [c \in cs |-> CASE c = "username" -> u
                        [] c = "password" -> PasswordOf(u)
                        [] OTHER -> CHOOSE v \in ColumnInputs(c) : TRUE]

\* stores empty, nothing issued
InitStore ==
    /\ \E d \in StoreDeployments : Deployed(d)
    /\ users = NoUsers
    /\ rows = {}
    /\ now = 0
    /\ sub = 0
    /\ acc = NoToken
    /\ ref = NoToken
    /\ last = NoCall
    /\ Quiescent
    /\ kept = NoKept

\* as setupAuthify leaves it: the users created, nothing issued
Init ==
    /\ \E d \in Deployments : Deployed(d)
    /\ users = MemCreateUser(MemCreateUser(NoUsers, SeedFields("alice")).users,
                             SeedFields("bob")).users
    /\ rows = DbCreateUser(DbCreateUser({}, SeedFields("alice")).rows,
                           SeedFields("bob")).rows
    /\ now = 0
    /\ sub = 0
    /\ acc = NoToken
    /\ ref = NoToken
    /\ last = NoCall
    /\ Quiescent
    /\ kept = NoKept

\* the orders that make a difference to the bound store
Orders ==
    IF storeKind = "db" THEN IterationOrders ELSE {[c \in Columns |-> c]}

\* Store.CreateUser(data), on both stores
CreateUser ==
    /\ Idle
    /\ \E data \in FieldMaps :
        LET m == MemCreateUser(users, data)
            d == DbCreateUser(rows, data)
        IN  /\ users' = m.users
            /\ rows' = d.rows
            /\ last' = [NoCall EXCEPT !.op = "CreateUser", !.data = data,
                                      !.memErr = m.err, !.dbErr = d.err]
            /\ UNCHANGED <<cfgVars, concVars, kept, now, sub, acc, ref>>

\* Store.GetUserInfo(username, password), on both stores
GetUserInfo ==
    /\ Idle
    /\ \E username \in Usernames, password \in Passwords, order \in IterationOrders :
        LET m == MemGetUserInfo(users, username, password)
            d == DbGetUserInfo(rows, username, password, order)
        IN  /\ last' = [NoCall EXCEPT !.op = "GetUserInfo", !.username = username,
                                      !.password = password,
                                      !.memErr = m.err, !.dbErr = d.err,
                                      !.memInfo = m.info, !.dbInfo = d.info]
            /\ UNCHANGED <<cfgVars, concVars, kept, users, rows, now, sub, acc, ref>>

\* JWTManager.GenerateToken(username, password); the caller keeps the token
DoGenerateToken ==
    /\ Idle
    /\ \E username \in Usernames, password \in Passwords, order \in Orders :
        LET res == GenerateToken(username, password, order, now)
        IN  /\ acc' = IF res.err = OK THEN res.token ELSE acc
            /\ last' = [NoCall EXCEPT !.op = "GenerateToken", !.username = username,
                                      !.password = password, !.err = res.err,
                                      !.token = res.token]
            /\ UNCHANGED <<cfgVars, concVars, kept, users, rows, now, sub, ref>>

\* JWTManager.GenerateRefreshToken(username, ipAddress); the caller keeps the token
DoGenerateRefreshToken ==
    /\ Idle
    /\ \E username \in RefreshUsers, ipAddress \in IpAddrs :
        LET res == GenerateRefreshToken(username, ipAddress, now)
        IN  /\ ref' = res.token
            /\ last' = [NoCall EXCEPT !.op = "GenerateRefreshToken",
                                      !.username = username,
                                      !.ipAddress = ipAddress, !.err = res.err,
                                      !.token = res.token]
            /\ UNCHANGED <<cfgVars, concVars, kept, users, rows, now, sub, acc>>

\* JWTManager.VerifyToken(tokenStr, isRefresh)
DoVerifyToken ==
    /\ Idle
    /\ \E tok \in Presentable, isRefresh \in BOOLEAN :
        LET res == VerifyToken(tok, isRefresh, now)
        IN  /\ last' = [NoCall EXCEPT !.op = "VerifyToken", !.isRefresh = isRefresh,
                                      !.inAccess = tok, !.err = res.err,
                                      !.outUser = res.username, !.outRole = res.role]
            /\ UNCHANGED <<cfgVars, concVars, kept, users, rows, now, sub, acc, ref>>

\* JWTManager.RefreshToken(accessToken, refreshToken); the caller keeps the new token
DoRefreshToken ==
    /\ Idle
    /\ sub <= MaxSub
    /\ \E accessToken \in Variants(acc) \cup {ref}, refreshToken \in RefreshVariants(ref) \cup {acc} :
        LET res == RefreshToken(accessToken, refreshToken, now, sub)
        IN  /\ acc' = IF res.err = OK THEN res.token ELSE acc
            /\ sub' = IF res.err = OK THEN sub + 1 ELSE sub
            /\ last' = [NoCall EXCEPT !.op = "RefreshToken", !.inAccess = accessToken,
                                      !.inRefresh = refreshToken, !.err = res.err,
                                      !.token = res.token, !.outUser = res.username]
            /\ UNCHANGED <<cfgVars, concVars, kept, users, rows, now, ref>>

\* the caller takes the result
Return ==
    /\ ~Idle
    /\ last' = NoCall
    /\ UNCHANGED <<cfgVars, concVars, kept, users, rows, now, sub, acc, ref>>

\* time passes
Tick ==
    /\ Idle
    /\ now < MaxTime
    /\ now' = now + 1
    /\ sub' = 0
    /\ UNCHANGED <<cfgVars, concVars, kept, users, rows, acc, ref, last>>

Next ==
    \/ DoGenerateToken
    \/ DoGenerateRefreshToken
    \/ DoVerifyToken
    \/ DoRefreshToken
    \/ Return
    \/ Tick

Spec == Init /\ [][Next]_vars

\* the engine bound to the relational store, as cmd/server deploys it
InitRelational == Init /\ storeKind = "db"

SpecRelational == InitRelational /\ [][Next]_vars

NextStore ==
    \/ CreateUser
    \/ GetUserInfo
    \/ DoGenerateToken
    \/ Return

SpecStore == InitStore /\ [][NextStore]_vars

(***************************************************************************)
(* Construction: the schema is loaded, a store is made from it and the     *)
(* engine is assembled by its builder (NewJWTManager, With..., Build).     *)
(* In this phase storeKind "none" is the nil store and "" an unset secret. *)
(***************************************************************************)
ErrAccessTokenSecretNotProvided == "access token secret not provided"
ErrRefreshTokenSecretNotProvided == "refresh token secret not provided"
ErrStoreNotProvided == "store must be provided"
ErrUnsupportedVersion == "unsupported store config version"
ErrUnsupportedType == "unsupported column type"

\* 15 * time.Minute
defaultAccessTokenDuration == 15 * 60 * TicksPerSec

\* the keys of allowedTypes
allowedTypes == {"text", "int", "bool", "uuid", "jsonb", "timestamp"}

\* configs/store.yml as the README prints it
SchemaDocumented ==
    [c \in {"username", "password", "role", "email", "phone", "remember_me_days"} |->
        CASE c = "username" -> UsernameCol
          [] c = "password" -> PasswordCol
          [] c = "role" -> RoleCol
          [] c = "email" -> Col("text", FALSE, TRUE, FALSE, "", FALSE, "email")
          [] c = "phone" -> Col("text", FALSE, FALSE, FALSE, "", FALSE, "")
          [] OTHER -> Col("integer", FALSE, FALSE, FALSE, "", FALSE, "")]

\* one column of every allowed type
SchemaAllTypes ==
    [c \in {"username", "password", "logins", "active", "id", "profile", "created"} |->
        CASE c = "username" -> UsernameCol
          [] c = "password" -> PasswordCol
          [] c = "logins" -> Col("int", FALSE, FALSE, FALSE, "", FALSE, "")
          [] c = "active" -> Col("bool", FALSE, FALSE, FALSE, "", FALSE, "")
          [] c = "id" -> Col("uuid", FALSE, FALSE, FALSE, "", FALSE, "")
          [] c = "profile" -> Col("jsonb", FALSE, FALSE, FALSE, "", FALSE, "")
          [] OTHER -> Col("timestamp", FALSE, FALSE, FALSE, "", FALSE, "")]

\* a column of a type PostgreSQL has and allowedTypes has not
SchemaBlob ==
    [c \in {"username", "password", "avatar"} |->
        CASE c = "username" -> UsernameCol
          [] c = "password" -> PasswordCol
          [] OTHER -> Col("bytea", FALSE, FALSE, FALSE, "", FALSE, "")]

SetupSchemas == {SchemaReadme, SchemaDocumented, SchemaAllTypes, SchemaBlob}

\* the version field of the files LoadStoreConfig is given
Versions == {0, 1, 2}

\* what the builder is given: secrets ("" is the empty string) and lifetimes
Secrets == {"", "access-secret", "refresh-secret"}
Durations == {0, 1, TicksPerSec}
Stores == {"none", "mem", "db"}

\* lib.LoadStoreConfig of a file that parses: the error it returns
LoadStoreConfig(version, columns) ==
    IF version # 1 THEN ErrUnsupportedVersion ELSE OK

\* stores.NewInMemoryUserStore: it has no error to return
NewInMemoryUserStore(columns) == OK

constructColumnRowFromConfig(columns) ==
    IF \E c \in DOMAIN columns : columns[c].Type \notin allowedTypes
    THEN ErrUnsupportedType ELSE OK

createTableIfNotExists(autoCreate, columns) ==
    IF ~autoCreate THEN OK ELSE constructColumnRowFromConfig(columns)

\* stores.NewAuthifyDB once the connection is made
NewAuthifyDB(autoCreate, columns) ==
    IF autoCreate THEN createTableIfNotExists(autoCreate, columns) ELSE OK

\* Build without the test of the store
Build_StoreUnchecked(access, refresh, store) ==
    IF access = "" THEN ErrAccessTokenSecretNotProvided
    ELSE IF refresh = "" THEN ErrRefreshTokenSecretNotProvided
    ELSE OK

\* JWTManager.Build: the error it returns
Build(access, refresh, store) ==
    IF access = "" THEN ErrAccessTokenSecretNotProvided
    ELSE IF refresh = "" THEN ErrRefreshTokenSecretNotProvided
    ELSE IF store = "none" THEN ErrStoreNotProvided
    ELSE OK

\* NewJWTManager(): nothing set but the default lifetime; a schema to load
InitSetup ==
    /\ tableCfg \in SetupSchemas
    /\ storeKind = "none"
    /\ accessKey = ""
    /\ refreshKey = ""
    /\ tokenDuration = defaultAccessTokenDuration
    /\ users = NoUsers
    /\ rows = {}
    /\ now = 0
    /\ sub = 0
    /\ acc = NoToken
    /\ ref = NoToken
    /\ last = NoCall
    /\ Quiescent
    /\ kept = NoKept

DoLoadStoreConfig ==
    /\ Idle
    /\ \E version \in Versions :
        last' = [NoCall EXCEPT !.op = "LoadStoreConfig", !.version = version,
                               !.err = LoadStoreConfig(version, tableCfg)]
    /\ UNCHANGED <<cfgVars, concVars, kept, users, rows, now, sub, acc, ref>>

DoNewInMemoryUserStore ==
    /\ Idle
    /\ last' = [NoCall EXCEPT !.op = "NewInMemoryUserStore",
                              !.err = NewInMemoryUserStore(tableCfg)]
    /\ UNCHANGED <<cfgVars, concVars, kept, users, rows, now, sub, acc, ref>>

DoNewAuthifyDB ==
    /\ Idle
    /\ \E autoCreate \in BOOLEAN :
        last' = [NoCall EXCEPT !.op = "NewAuthifyDB", !.autoCreate = autoCreate,
                               !.err = NewAuthifyDB(autoCreate, tableCfg)]
    /\ UNCHANGED <<cfgVars, concVars, kept, users, rows, now, sub, acc, ref>>

WithAccessSecret ==
    /\ Idle
    /\ \E secret \in Secrets : accessKey' = secret
    /\ UNCHANGED <<kept, tableCfg, storeKind, refreshKey, tokenDuration,
                   concVars, users, rows, now, sub, acc, ref, last>>

WithRefreshSecret ==
    /\ Idle
    /\ \E secret \in Secrets : refreshKey' = secret
    /\ UNCHANGED <<kept, tableCfg, storeKind, accessKey, tokenDuration,
                   concVars, users, rows, now, sub, acc, ref, last>>

WithTokenDuration ==
    /\ Idle
    /\ \E d \in Durations : tokenDuration' = d
    /\ UNCHANGED <<kept, tableCfg, storeKind, accessKey, refreshKey,
                   concVars, users, rows, now, sub, acc, ref, last>>

WithStore ==
    /\ Idle
    /\ \E store \in Stores : storeKind' = store
    /\ UNCHANGED <<kept, tableCfg, accessKey, refreshKey, tokenDuration,
                   concVars, users, rows, now, sub, acc, ref, last>>

DoBuild ==
    /\ Idle
    /\ last' = [NoCall EXCEPT !.op = "Build",
                              !.err = Build(accessKey, refreshKey, storeKind)]
    /\ UNCHANGED <<cfgVars, concVars, kept, users, rows, now, sub, acc, ref>>

NextSetup ==
    \/ DoLoadStoreConfig
    \/ DoNewInMemoryUserStore
    \/ DoNewAuthifyDB
    \/ WithAccessSecret
    \/ WithRefreshSecret
    \/ WithTokenDuration
    \/ WithStore
    \/ DoBuild
    \/ Return

SpecSetup == InitSetup /\ [][NextSetup]_vars

(***************************************************************************)
(* The in-memory store called by several goroutines at once.  Every        *)
(* goroutine makes one call; CreateUser and GetUserInfo are taken apart    *)
(* into the steps between which another goroutine may run.                 *)
(***************************************************************************)
\* what the concurrent CreateUser calls supply: one primary key, with and
\* without the column that is not required, without the password, and
\* nothing at all
ConcData ==
    {d \in FieldMaps : d = EmptyMap \/ (Has(d, "username") /\ d["username"] = "alice")}

\* Lock may take the writers' mutex
CanLock_IgnoresWriter(lock) == TRUE

CanLock(lock) == lock.w = 0

\* RLock may enter as if no writer had announced itself
CanRLock_IgnoresWriter(lock) == TRUE

CanRLock(lock) == lock.w = 0

\* an Unlock written at the end of the function body instead of deferred
DeferredUnlock_SuccessOnly(lock, err) ==
    IF err = OK THEN [lock EXCEPT !.w = 0] ELSE lock

\* defer m.mu.Unlock(): runs on every return, whatever the error
DeferredUnlock(lock, err) == [lock EXCEPT !.w = 0]

\* the goroutine's locals after one more step
Goto(p, label) == [procs EXCEPT ![p].pc = label]

\* go store.CreateUser(data)
CallCreateUser(p) ==
    /\ procs[p].pc = "idle"
    /\ \E data \in ConcData :
        procs' = [procs EXCEPT ![p] = [NotCalled EXCEPT !.pc = "Lock",
                                                        !.op = "CreateUser",
                                                        !.data = data]]
    /\ UNCHANGED <<cfgVars, kept, mu, users, rows, now, sub, acc, ref, last>>

\* go store.GetUserInfo(username, password)
CallGetUserInfo(p) ==
    /\ procs[p].pc = "idle"
    /\ \E password \in Passwords :
        procs' = [procs EXCEPT ![p] = [NotCalled EXCEPT !.pc = "RLock",
                                                        !.op = "GetUserInfo",
                                                        !.username = "alice",
                                                        !.password = password]]
    /\ UNCHANGED <<cfgVars, kept, mu, users, rows, now, sub, acc, ref, last>>

\* m.mu.Lock(), first half: the writers' mutex is taken, readers are kept out
Lock(p) ==
    /\ procs[p].pc = "Lock"
    /\ CanLock(mu)
    /\ mu' = [mu EXCEPT !.w = p]
    /\ procs' = Goto(p, "Drain")
    /\ UNCHANGED <<cfgVars, kept, users, rows, now, sub, acc, ref, last>>

\* m.mu.Lock() returns once the readers inside have left
LockAcquired(p) ==
    /\ procs[p].pc = "Drain"
    /\ mu.readers = {}
    /\ procs' = Goto(p, "Check")
    /\ UNCHANGED <<cfgVars, kept, mu, users, rows, now, sub, acc, ref, last>>

\* CreateUser: the username is looked up
CheckUsername(p) ==
    /\ procs[p].pc = "Check"
    /\ LET data == procs[p].data
       IN  procs' = IF ~Has(data, "username")
                        THEN [procs EXCEPT ![p].pc = "Unlock", ![p].err = ErrUserNotFound]
                    ELSE IF data["username"] \in DOMAIN users
                        THEN [procs EXCEPT ![p].pc = "Unlock", ![p].err = ErrUserExists]
                    ELSE [procs EXCEPT ![p].pc = "Range", ![p].user = EmptyMap,
                                       ![p].todo = Columns]
    /\ UNCHANGED <<cfgVars, kept, mu, users, rows, now, sub, acc, ref, last>>

\* CreateUser: one pass of the loop over the columns, in the order the map
\* yields them; the record is built in the local user
RangeColumns(p) ==
    /\ procs[p].pc = "Range"
    /\ \E name \in procs[p].todo :
        LET data == procs[p].data
            cfg == tableCfg[name]
            ok == Has(data, name)
            val == IF ok THEN data[name] ELSE cfg.Default
            stored == IF name = "password" THEN GenerateFromPassword(val) ELSE val
            user == procs[p].user
        IN  procs' =
                IF cfg.Required /\ ~ok /\ cfg.Default = ""
                    THEN [procs EXCEPT ![p].pc = "Unlock", ![p].err = ErrInvalidPassword]
                ELSE IF ~ok /\ cfg.Default = ""
                    THEN [procs EXCEPT ![p].todo = @ \ {name}]
                ELSE [procs EXCEPT ![p].todo = @ \ {name},
                                   ![p].user = [c \in DOMAIN user \cup {name} |->
                                                   IF c = name THEN stored ELSE user[c]]]
    /\ UNCHANGED <<cfgVars, kept, mu, users, rows, now, sub, acc, ref, last>>

\* CreateUser: m.users[username] = user; return nil
StoreRecord(p) ==
    /\ procs[p].pc = "Range"
    /\ procs[p].todo = {}
    /\ users' = [u \in DOMAIN users \cup {procs[p].data["username"]} |->
                    IF u = procs[p].data["username"] THEN procs[p].user ELSE users[u]]
    /\ procs' = [procs EXCEPT ![p].pc = "Unlock", ![p].err = OK]
    /\ UNCHANGED <<cfgVars, kept, mu, rows, now, sub, acc, ref, last>>

\* CreateUser returns: the deferred Unlock runs
Unlock(p) ==
    /\ procs[p].pc = "Unlock"
    /\ mu' = DeferredUnlock(mu, procs[p].err)
    /\ procs' = Goto(p, "done")
    /\ UNCHANGED <<cfgVars, kept, users, rows, now, sub, acc, ref, last>>

\* m.mu.RLock()
RLock(p) ==
    /\ procs[p].pc = "RLock"
    /\ CanRLock(mu)
    /\ mu' = [mu EXCEPT !.readers = @ \cup {p}]
    /\ procs' = Goto(p, "Read")
    /\ UNCHANGED <<cfgVars, kept, users, rows, now, sub, acc, ref, last>>

\* GetUserInfo: the record is looked up, the password compared, the result built
ReadRecord(p) ==
    /\ procs[p].pc = "Read"
    /\ LET got == MemGetUserInfo(users, procs[p].username, procs[p].password)
       IN  procs' = [procs EXCEPT ![p].pc = "RUnlock", ![p].err = got.err,
                                  ![p].info = got.info]
    /\ UNCHANGED <<cfgVars, kept, mu, users, rows, now, sub, acc, ref, last>>

\* GetUserInfo returns: the deferred RUnlock runs
RUnlock(p) ==
    /\ procs[p].pc = "RUnlock"
    /\ mu' = [mu EXCEPT !.readers = @ \ {p}]
    /\ procs' = Goto(p, "done")
    /\ UNCHANGED <<cfgVars, kept, users, rows, now, sub, acc, ref, last>>

\* the steps of a call once it is made
Step(p) ==
    \/ Lock(p)
    \/ LockAcquired(p)
    \/ CheckUsername(p)
    \/ RangeColumns(p)
    \/ StoreRecord(p)
    \/ Unlock(p)
    \/ RLock(p)
    \/ ReadRecord(p)
    \/ RUnlock(p)

NextConcurrent ==
    \E p \in Procs :
        \/ CallCreateUser(p)
        \/ CallGetUserInfo(p)
        \/ Step(p)

\* an empty in-memory store built from the README's schema
InitConcurrent == InitStore /\ tableCfg = SchemaReadme /\ storeKind = "mem"

SpecConcurrent == InitConcurrent /\ [][NextConcurrent]_vars

\* the Go scheduler runs every goroutine that can run, and a goroutine
\* waiting for the lock is woken when it is released
SpecConcurrentFair ==
    /\ InitConcurrent
    /\ [][NextConcurrent]_vars
    /\ \A p \in Procs : WF_vars(Step(p))

(***************************************************************************)
(* Properties.                                                             *)
(***************************************************************************)
\* the signature segment of tok is the MAC of its header and payload under key
SignatureVerifies(tok, key) ==
    /\ WellFormed(tok)
    /\ tok.alg = "HS256"
    /\ SignatureIntact(tok)
    /\ tok.sig = MAC(key, tok.alg, tok.claims)

\* tok carries an expiry instant and the clock has reached it
ExpiryElapsed(tok, t) ==
    IsNumber(tok.claims, "exp") /\ t >= tok.claims["exp"].n * TicksPerSec

RefreshCalled == last.op = "RefreshToken"

VerifyCalled == last.op = "VerifyToken"

\* C2: with a valid refresh token, RefreshToken refuses every access token
\* whose signature does not verify under the access secret, expired or not:
\* it returns VerifyToken's error and no token; and whenever it issues a token,
\* the signature of the presented access token verified.
C2_UnverifiedNeverRenewed ==
    RefreshCalled =>
        /\ (/\ VerifyToken(last.inRefresh, TRUE, now).err = OK
            /\ ~SignatureVerifies(last.inAccess, accessKey))
              => /\ last.err = ErrInvalidToken
                 /\ last.err = VerifyToken(last.inAccess, FALSE, now).err
                 /\ last.token = NoToken
        /\ last.err = OK => SignatureVerifies(last.inAccess, accessKey)

\* a tampered access token whose expiry has elapsed, with a valid refresh token
C2_Witness ==
    /\ RefreshCalled
    /\ VerifyToken(last.inRefresh, TRUE, now).err = OK
    /\ WellFormed(last.inAccess)
    /\ ~SignatureVerifies(last.inAccess, accessKey)
    /\ ExpiryElapsed(last.inAccess, now)
    /\ last.err = ErrInvalidToken

\* C3: RefreshToken with a refresh token signed by the engine whose expiry has
\* elapsed fails with ErrRefreshTokenExpired and returns no token, whatever
\* the access token is.
C3_ExpiredRefreshRefused ==
    (/\ RefreshCalled
     /\ SignatureVerifies(last.inRefresh, refreshKey)
     /\ ExpiryElapsed(last.inRefresh, now))
        => /\ last.err = ErrRefreshTokenExpired
           /\ last.token = NoToken
           /\ last.outUser = ""

\* an expired refresh token with an access token that is not valid
C3_Witness ==
    /\ RefreshCalled
    /\ SignatureVerifies(last.inRefresh, refreshKey)
    /\ ExpiryElapsed(last.inRefresh, now)
    /\ VerifyToken(last.inAccess, FALSE, now).err = ErrInvalidToken
    /\ last.err = ErrRefreshTokenExpired

\* C5: RefreshToken with an access token and a refresh token that both verify
\* returns a token that differs from the presented access token and on which
\* VerifyToken returns the same username and role.
C5_RenewalOfValidToken ==
    (/\ RefreshCalled
     /\ VerifyToken(last.inAccess, FALSE, now).err = OK
     /\ VerifyToken(last.inRefresh, TRUE, now).err = OK)
        => /\ last.err = OK
           /\ last.token # last.inAccess
           /\ last.token.form = "jwt"
           /\ VerifyToken(last.token, FALSE, now) = VerifyToken(last.inAccess, FALSE, now)

\* the presented access token is itself the result of a renewal
C5_Witness ==
    /\ RefreshCalled
    /\ VerifyToken(last.inAccess, FALSE, now).err = OK
    /\ VerifyToken(last.inRefresh, TRUE, now).err = OK
    /\ Has(last.inAccess.claims, "refreshed_at")
    /\ last.err = OK

\* C6: VerifyToken on a token whose signature verifies and whose expiry has
\* elapsed fails with ErrTokenExpired; on a token whose signature does not
\* verify it fails with ErrInvalidToken, a different error.
C6_ExpiredDistinctFromInvalid ==
    VerifyCalled =>
        LET key == IF last.isRefresh THEN refreshKey ELSE accessKey
        IN  /\ (SignatureVerifies(last.inAccess, key) /\ ExpiryElapsed(last.inAccess, now))
                  => last.err = ErrTokenExpired
            /\ ~SignatureVerifies(last.inAccess, key) => last.err = ErrInvalidToken
            /\ ErrTokenExpired # ErrInvalidToken

\* an expired access token at the very instant of its expiry
C6_Witness ==
    /\ VerifyCalled
    /\ ~last.isRefresh
    /\ SignatureVerifies(last.inAccess, accessKey)
    /\ now = last.inAccess.claims["exp"].n * TicksPerSec
    /\ last.err = ErrTokenExpired

\* tok is a token GenerateToken returned, as it was returned
FromGenerateToken(tok) ==
    /\ tok.form = "jwt"
    /\ tok.tail = <<>>
    /\ Has(tok.claims, "iss")
    /\ tok.alg = "HS256"
    /\ tok.sig = MAC(accessKey, tok.alg, tok.claims)

\* tok is a token GenerateRefreshToken returned, as it was returned
FromGenerateRefreshToken(tok) ==
    /\ tok.form = "jwt"
    /\ tok.tail = <<>>
    /\ Has(tok.claims, "aExp")
    /\ tok.alg = "HS256"
    /\ tok.sig = MAC(refreshKey, tok.alg, tok.claims)

\* tok without what was appended to it
Stem(tok) == [tok EXCEPT !.tail = <<>>]

LineBreaksOnly(suffix) == \A i \in DOMAIN suffix : suffix[i] = "\n"

\* VerifyToken(token + suffix, false) for a token of GenerateToken
SuffixedVerify ==
    /\ VerifyCalled
    /\ ~last.isRefresh
    /\ last.inAccess.tail # <<>>
    /\ FromGenerateToken(Stem(last.inAccess))

\* C7 as stated: VerifyToken(token + suffix, false) fails with ErrInvalidToken
\* for every token of GenerateToken and every non-empty suffix.
C7_AnySuffixInvalid ==
    SuffixedVerify => last.err = ErrInvalidToken

\* C7 amended: VerifyToken(token + suffix, false) fails with ErrInvalidToken for
\* every token of GenerateToken and every suffix that holds a character other
\* than a line break; a suffix of line breaks only is skipped by the decoder
\* and VerifyToken answers as it does for the token itself.
C7_SuffixInvalidUnlessLineBreaks ==
    SuffixedVerify =>
        IF LineBreaksOnly(last.inAccess.tail)
        THEN [err |-> last.err, username |-> last.outUser, role |-> last.outRole]
                = VerifyToken(Stem(last.inAccess), FALSE, now)
        ELSE last.err = ErrInvalidToken

\* a token that verifies, with one base64 character appended
C7_Witness ==
    /\ SuffixedVerify
    /\ last.inAccess.tail = <<"x">>
    /\ VerifyToken(Stem(last.inAccess), FALSE, now).err = OK
    /\ last.err = ErrInvalidToken

\* the record the bound store holds for a user
StoredRecord(username) ==
    IF storeKind = "mem" THEN users[username]
    ELSE CHOOSE r \in rows : r["username"] = username

\* the user exists and the password is the one it was created with
Authenticates(username, password) ==
    IF storeKind = "mem"
    THEN username \in DOMAIN users /\ password = PasswordOf(username)
    ELSE (\E r \in rows : r["username"] = username) /\ password = PasswordOf(username)

\* the instants at which a lifetime that began at t has not elapsed
WithinLifetime(t) == t .. (t + tokenDuration - 1)

\* C1: for every created user, GenerateToken(username, password) succeeds and
\* VerifyToken(token, false), at every instant before the token lifetime has
\* elapsed, succeeds and returns that username and the role of the user's record.
C1_RoundTrip ==
    (last.op = "GenerateToken" /\ Authenticates(last.username, last.password))
        => /\ last.err = OK
           /\ \A t \in WithinLifetime(now) :
                 LET v == VerifyToken(last.token, FALSE, t)
                     record == StoredRecord(last.username)
                 IN  /\ v.err = OK
                     /\ v.username = last.username
                     /\ Has(record, "role")
                     /\ v.role = record["role"]

\* C4: RefreshToken with a validly signed access token whose expiry has elapsed
\* and a refresh token that verifies succeeds; VerifyToken accepts the reissued
\* token with the username and role of the presented one, and its expiry is
\* later than the presented token's.
C4_ExpiredAccessRenewed ==
    (/\ RefreshCalled
     /\ SignatureVerifies(last.inAccess, accessKey)
     /\ ExpiryElapsed(last.inAccess, now)
     /\ VerifyToken(last.inRefresh, TRUE, now).err = OK)
        => /\ last.err = OK
           /\ LET v == VerifyToken(last.token, FALSE, now)
                   old == last.inAccess.claims
               IN  /\ v.err = OK
                   /\ IsString(old, "username") /\ v.username = old["username"].s
                   /\ IsString(old, "role") /\ v.role = old["role"].s
           /\ IsNumber(last.token.claims, "exp")
           /\ last.token.claims["exp"].n > last.inAccess.claims["exp"].n

\* hidden columns that carry no claim-name
HiddenUnmapped == {c \in Columns : tableCfg[c].Hidden /\ tableCfg[c].JWTClaim = ""}

\* C8: no token GenerateToken issues holds, under any claim, the user's value
\* of a hidden column without claim-name (the password hash among them),
\* whichever store is bound.
C8_HiddenNeverInToken ==
    (last.op = "GenerateToken" /\ last.err = OK)
        => \A c \in HiddenUnmapped :
              LET record == StoredRecord(last.username)
              IN  Has(record, c) =>
                    \A k \in DOMAIN last.token.claims :
                        last.token.claims[k] # StrV(record[c])

\* C9: a successful GetUserInfo of either store returns the user's values of
\* the columns not flagged hidden and no entry for a hidden column.
C9_VisibleColumnsOnly ==
    last.op = "GetUserInfo" =>
        /\ last.memErr = OK =>
              LET record == users[last.username]
              IN  /\ \A c \in DOMAIN last.memInfo :
                        ~tableCfg[c].Hidden /\ last.memInfo[c] = record[c]
                  /\ \A c \in DOMAIN record :
                        ~tableCfg[c].Hidden => Has(last.memInfo, c)
        /\ last.dbErr = OK =>
              LET row == CHOOSE r \in rows : r["username"] = last.username
              IN  /\ \A c \in DOMAIN last.dbInfo : ~tableCfg[c].Hidden
                  /\ \A c \in Columns :
                        ~tableCfg[c].Hidden =>
                            Has(last.dbInfo, c) /\ last.dbInfo[c] = Sprint(row[c])

\* C10: VerifyToken(_, true) accepts no token of GenerateToken, RefreshToken
\* accepts none as its refresh token, and VerifyToken(_, false) accepts no
\* token of GenerateRefreshToken, for every engine Build accepts.
C10_ClassesNotSubstitutable ==
    /\ (VerifyCalled /\ last.isRefresh /\ FromGenerateToken(last.inAccess))
          => last.err # OK
    /\ (RefreshCalled /\ FromGenerateToken(last.inRefresh))
          => last.err # OK
    /\ (VerifyCalled /\ ~last.isRefresh /\ FromGenerateRefreshToken(last.inAccess))
          => last.err # OK

CreateCalled == last.op = "CreateUser"

C12_MissingFieldExactly ==
    [][last'.op = "CreateUser" =>
          LET data == last'.data
              fresh == /\ Has(data, "username")
                       /\ data["username"] \notin DOMAIN users
          IN  /\ MissingRequired(data)
                    => /\ last'.memErr = ErrMissingField
                       /\ users' = users
              /\ last'.memErr = ErrMissingField => MissingRequired(data)
              /\ (~MissingRequired(data) /\ fresh) => last'.memErr = OK]_vars

GetInfoCalled == last.op = "GetUserInfo"

\* C13: GetUserInfo fails with ErrUserNotFound when no record has the username,
\* whatever the password; with ErrInvalidPassword when a record exists and the
\* password is not the one it was created with; it succeeds only with the
\* password supplied at creation.  For both stores.
C13_AuthenticationOutcomes ==
    GetInfoCalled =>
        LET inMem == last.username \in DOMAIN users
            inDb == \E r \in rows : r["username"] = last.username
            wrong == last.password # PasswordOf(last.username)
        IN  /\ ~inMem => last.memErr = ErrUserNotFound
            /\ (inMem /\ wrong) => last.memErr = ErrInvalidPassword
            /\ last.memErr = OK => (inMem /\ ~wrong)
            /\ ~inDb => last.dbErr = ErrUserNotFound
            /\ (inDb /\ wrong) => last.dbErr = ErrInvalidPassword
            /\ last.dbErr = OK => (inDb /\ ~wrong)

\* another user's password is tried on an existing record
C13_Witness ==
    /\ GetInfoCalled
    /\ last.username \in DOMAIN users
    /\ \E r \in rows : r["username"] = last.username
    /\ last.password # PasswordOf(last.username)
    /\ last.memErr = ErrInvalidPassword
    /\ last.dbErr = ErrInvalidPassword

\* the passwords a record's password column can derive from
PlainPasswords ==
    Passwords \cup (IF Has(tableCfg, "password") /\ tableCfg["password"].Default # ""
                    THEN {tableCfg["password"].Default} ELSE {})

IsHash(v) == \E p \in PlainPasswords : v = GenerateFromPassword(p)

\* C14: the password field of every stored record, of either store, is the
\* hash of a password and never a plaintext, also when the password is the
\* schema default.
C14_PasswordsStoredHashed ==
    /\ \A u \in DOMAIN users :
          Has(users[u], "password") => IsHash(users[u]["password"])
    /\ \A r \in rows :
          (Has(r, "password") /\ r["password"] # SqlNull) => IsHash(r["password"])

GenerateCalled == last.op = "GenerateToken"

\* the claim-name the schema configures for a column, the column name without one
ClaimName(c) == IF tableCfg[c].JWTClaim # "" THEN tableCfg[c].JWTClaim ELSE c

\* the issuer, the expiry and the user fields under their claim-names
NamedClaims(info, t) ==
    LET names == {ClaimName(c) : c \in DOMAIN info}
    IN  [k \in {"iss", "exp"} \cup names |->
            IF k \in names THEN StrV(info[CHOOSE c \in DOMAIN info : ClaimName(c) = k])
            ELSE IF k = "iss" THEN StrV(authifyIssuer)
            ELSE NumV(Unix(t + tokenDuration))]

\* C15: the claim set of a token GenerateToken issues is the issuer constant,
\* the expiry now + lifetime, and one claim per field GetUserInfo returned, keyed
\* by the column's claim-name when the schema configures one and by the column
\* name otherwise, holding the returned value.
C15_ClaimsKeyedByClaimName ==
    (GenerateCalled /\ last.err = OK)
        => \E order \in Orders :
              last.token.claims =
                  NamedClaims(StoreGetUserInfo(last.username, last.password, order).info, now)

\* the bound store holds a value in column c for the user
RecordHolds(username, c) ==
    IF storeKind = "mem" THEN username \in DOMAIN users /\ Has(users[username], c)
    ELSE \E r \in rows : r["username"] = username /\ r[c] # SqlNull

\* GenerateToken or RefreshToken has returned a token
TokenIssued == (GenerateCalled \/ RefreshCalled) /\ last.err = OK

\* C16: every access token the engine returns, from GenerateToken and from
\* both renewal paths of RefreshToken, holds the issuer identifier, an expiry
\* instant and every column with a claim-name the user has a value for.
C16_AccessTokenContents ==
    TokenIssued =>
        LET claims == last.token.claims
            owner == IF GenerateCalled THEN last.username ELSE last.outUser
        IN  /\ IsString(claims, "iss") /\ claims["iss"].s = authifyIssuer
            /\ IsNumber(claims, "exp")
            /\ \A c \in Columns :
                  (tableCfg[c].JWTClaim # "" /\ RecordHolds(owner, c))
                      => (Has(claims, ClaimName(c)) \/ Has(claims, c))

\* the result VerifyToken returned
Verdict == [err |-> last.err, username |-> last.outUser, role |-> last.outRole]

\* the claims with another absolute expiry, signed with the refresh secret
WithAbsoluteExpiry(claims, a) ==
    SignedString([k \in DOMAIN claims \cup {"aExp"} |->
                     IF k = "aExp" THEN NumV(a) ELSE claims[k]], refreshKey)

\* the claims without an absolute expiry, signed with the refresh secret
WithoutAbsoluteExpiry(claims) ==
    SignedString([k \in DOMAIN claims \ {"aExp"} |-> claims[k]], refreshKey)

\* C17: VerifyToken(_, true) accepts a token only if its signature verifies
\* under the refresh secret, its expiry has not elapsed and its valid claim is
\* "True"; whatever the absolute expiry aExp is, elapsed or absent, the result
\* is the same.
C17_RefreshAcceptance ==
    (VerifyCalled /\ last.isRefresh) =>
        LET tok == last.inAccess
        IN  /\ last.err = OK
                  => /\ SignatureVerifies(tok, refreshKey)
                     /\ ~ExpiryElapsed(tok, now)
                     /\ IsString(tok.claims, "valid")
                     /\ tok.claims["valid"].s = "True"
            /\ SignatureVerifies(tok, refreshKey)
                  => /\ \A a \in 0 .. (Unix(MaxTime) + 1) :
                           VerifyToken(WithAbsoluteExpiry(tok.claims, a), TRUE, now) = Verdict
                     /\ VerifyToken(WithoutAbsoluteExpiry(tok.claims), TRUE, now) = Verdict

\* a refresh token of the engine accepted after its issuance
C17_Witness ==
    /\ VerifyCalled
    /\ last.isRefresh
    /\ FromGenerateRefreshToken(last.inAccess)
    /\ now > 0
    /\ last.err = OK

\* C18: VerifyToken on a well-formed token whose signing algorithm is not of
\* the HMAC family fails with ErrUnexpectedSigningMethod, for both values of
\* isRefresh.
C18_UnexpectedSigningMethod ==
    (/\ VerifyCalled
     /\ WellFormed(last.inAccess)
     /\ last.inAccess.alg # "HS256")
        => last.err = ErrUnexpectedSigningMethod

\* the presented token is validly signed for the class asked for and not expired
VerifiedAndCurrent ==
    /\ VerifyCalled
    /\ SignatureVerifies(last.inAccess, IF last.isRefresh THEN refreshKey ELSE accessKey)
    /\ IsNumber(last.inAccess.claims, "exp")
    /\ ~ExpiryElapsed(last.inAccess, now)

\* C19: on a validly signed token that has not expired, VerifyToken(_, false)
\* fails with ErrMissingUsername without a username claim and with
\* ErrMissingRole without a role claim; VerifyToken(_, true) fails with
\* ErrInvalidToken unless the valid claim is "True" and with ErrMissingUsername
\* without a uName claim, and on success returns the username and an empty role.
C19_ClaimRequirements ==
    VerifiedAndCurrent =>
        LET claims == last.inAccess.claims
            affirmed == IsString(claims, "valid") /\ claims["valid"].s = "True"
        IN  IF ~last.isRefresh
            THEN /\ ~IsString(claims, "username") => last.err = ErrMissingUsername
                 /\ (IsString(claims, "username") /\ ~IsString(claims, "role"))
                       => last.err = ErrMissingRole
                 /\ (IsString(claims, "username") /\ IsString(claims, "role"))
                       => Verdict = [err |-> OK, username |-> claims["username"].s,
                                     role |-> claims["role"].s]
            ELSE /\ ~affirmed => last.err = ErrInvalidToken
                 /\ (affirmed /\ ~IsString(claims, "uName"))
                       => last.err = ErrMissingUsername
                 /\ (affirmed /\ IsString(claims, "uName"))
                       => Verdict = [err |-> OK, username |-> claims["uName"].s,
                                     role |-> ""]

\* a token signed with the refresh secret that has neither flag nor username
C19_Witness ==
    /\ VerifiedAndCurrent
    /\ last.isRefresh
    /\ ~Has(last.inAccess.claims, "valid")
    /\ ~Has(last.inAccess.claims, "uName")
    /\ last.err = ErrInvalidToken

\* an affirmed token signed with the refresh secret that has no username
C19_WitnessNoUsername ==
    /\ VerifiedAndCurrent
    /\ last.isRefresh
    /\ ~Has(last.inAccess.claims, "uName")
    /\ last.err = ErrMissingUsername

\* RefreshToken has renewed an access token that had not expired
RenewedCurrent ==
    /\ RefreshCalled
    /\ VerifyToken(last.inAccess, FALSE, now).err = OK
    /\ last.err = OK
    /\ IsNumber(last.token.claims, "exp")

\* the clock reading a renewed token records as refreshed_at
RefreshedAtTick(tok) == tok.claims["refreshed_at"].n \div (MaxSub + 1)

\* C20 as stated: every successful RefreshToken on an access token that has
\* not expired returns a token whose expiry is strictly later than that of the
\* presented token.
C20_ExpiryStrictlyLater ==
    RenewedCurrent =>
        last.token.claims["exp"].n > last.inAccess.claims["exp"].n

\* C20 amended: the expiry of the returned token is never earlier than that of
\* the presented token; with a lifetime of whole seconds it is strictly later
\* exactly when the call is made in a later clock second than the one in which
\* the presented token was issued, and equal within the same second.
C20_ExpiryNeverEarlier ==
    RenewedCurrent =>
        LET new == last.token.claims["exp"].n
            old == last.inAccess.claims["exp"].n
        IN  /\ new >= old
            /\ (/\ tokenDuration % TicksPerSec = 0
                /\ IsNumber(last.inAccess.claims, "refreshed_at"))
                  => (new > old <=> Unix(now) > Unix(RefreshedAtTick(last.inAccess)))

\* a renewed token renewed again in a later second
C20_Witness ==
    /\ RenewedCurrent
    /\ IsNumber(last.inAccess.claims, "refreshed_at")
    /\ Unix(now) > Unix(RefreshedAtTick(last.inAccess))
    /\ last.token.claims["exp"].n > last.inAccess.claims["exp"].n


\* the bound store holds a record for the user
Known(username) ==
    IF storeKind = "mem" THEN username \in DOMAIN users
    ELSE \E r \in rows : r["username"] = username

\* C21: GenerateToken issues a token only when GetUserInfo of the bound store
\* succeeds for the username and password; for an unknown user it returns
\* ErrUserNotFound and for a wrong password ErrInvalidPassword, the store's
\* own errors, and no token.
C21_TokenOnlyAfterGetUserInfo ==
    GenerateCalled =>
        LET wrong == last.password # PasswordOf(last.username)
        IN  /\ ~Known(last.username) =>
                (last.err = ErrUserNotFound /\ last.token = NoToken)
            /\ (Known(last.username) /\ wrong) =>
                (last.err = ErrInvalidPassword /\ last.token = NoToken)
            /\ \A order \in Orders :
                LET got == StoreGetUserInfo(last.username, last.password, order)
                IN  got.err # OK => (last.err = got.err /\ last.token = NoToken)
            /\ last.token # NoToken =>
                \E order \in Orders :
                    StoreGetUserInfo(last.username, last.password, order).err = OK

\* a token is asked for a user nobody created
C21_Witness ==
    /\ GenerateCalled
    /\ ~Known(last.username)
    /\ last.err = ErrUserNotFound
    /\ last.token = NoToken

\* a token is asked with another user's password
C21_WitnessWrongPassword ==
    /\ GenerateCalled
    /\ Known(last.username)
    /\ last.password # PasswordOf(last.username)
    /\ last.err = ErrInvalidPassword


BuildCalled == last.op = "Build"

\* WithTokenDuration was never called, or was given the zero duration
LifetimeMissing == tokenDuration = defaultAccessTokenDuration \/ tokenDuration = 0

\* C22 as stated: Build fails with a field-specific error for each required
\* field that is missing (access secret, refresh secret, token lifetime,
\* bound store) and returns an engine only when all four were supplied.
C22_AllFourRequired ==
    BuildCalled =>
        /\ accessKey = "" => last.err = ErrAccessTokenSecretNotProvided
        /\ (accessKey # "" /\ refreshKey = "") =>
                last.err = ErrRefreshTokenSecretNotProvided
        /\ (accessKey # "" /\ refreshKey # "" /\ storeKind = "none") =>
                last.err = ErrStoreNotProvided
        /\ last.err = OK <=>
            (accessKey # "" /\ refreshKey # "" /\ storeKind # "none" /\ ~LifetimeMissing)

\* C22, amended: Build fails with the error of the first missing field among
\* access secret, refresh secret and bound store, in that order, and returns
\* an engine exactly when those three were supplied; the token lifetime is
\* not required, the engine keeps the default of 15 minutes when none was
\* set and whatever duration was set otherwise.
C22_ThreeRequired ==
    BuildCalled =>
        /\ accessKey = "" => last.err = ErrAccessTokenSecretNotProvided
        /\ (accessKey # "" /\ refreshKey = "") =>
                last.err = ErrRefreshTokenSecretNotProvided
        /\ (accessKey # "" /\ refreshKey # "" /\ storeKind = "none") =>
                last.err = ErrStoreNotProvided
        /\ last.err = OK <=> (accessKey # "" /\ refreshKey # "" /\ storeKind # "none")
        /\ tokenDuration \in Durations \cup {defaultAccessTokenDuration}

\* an engine is built although no lifetime was ever set
C22_Witness ==
    /\ BuildCalled
    /\ last.err = OK
    /\ tokenDuration = defaultAccessTokenDuration

\* a store has been made from the schema, or the schema loaded from a file
\* of the supported version
Constructed ==
    \/ last.op = "LoadStoreConfig" /\ last.version = 1
    \/ last.op = "NewInMemoryUserStore"
    \/ last.op = "NewAuthifyDB"

\* C28: whichever way a store is constructed from a schema, the construction
\* fails with the unsupported-type error exactly when some column's type is
\* outside the allowed set.
C28_UnsupportedTypeRejected ==
    Constructed =>
        (last.err = ErrUnsupportedType <=>
            \E c \in Columns : tableCfg[c].Type \notin allowedTypes)

\* C30: the schema the README documents is valid: a relational store with
\* auto_create builds its table from it without an unsupported-type error.
C30_DocumentedSchemaValid ==
    (last.op = "NewAuthifyDB" /\ last.autoCreate /\ tableCfg = SchemaDocumented) =>
        last.err = OK


RefreshGenerated == last.op = "GenerateRefreshToken"

\* C23: GenerateRefreshToken succeeds for any username, created or not; the
\* token carries that username and address, issued-at = now, expiry = now +
\* 3 days, absolute expiry = now + 15 days (in whole seconds) and valid =
\* "True", and is signed with the refresh secret; VerifyToken(_, true)
\* accepts it and returns that username at every instant before its expiry.
C23_RefreshTokenIssued ==
    /\ RefreshGenerated =>
        /\ last.err = OK
        /\ last.token.claims =
              [k \in {"uName", "IpAddr", "iat", "exp", "aExp", "valid"} |->
                  CASE k = "uName" -> StrV(last.username)
                    [] k = "IpAddr" -> StrV(last.ipAddress)
                    [] k = "iat" -> NumV(Unix(now))
                    [] k = "exp" -> NumV(Unix(now) + RefreshDays * SecPerDay)
                    [] k = "aExp" -> NumV(Unix(now) + AbsoluteDays * SecPerDay)
                    [] OTHER -> StrV("True")]
        /\ SignatureVerifies(last.token, refreshKey)
    /\ (VerifyCalled /\ last.isRefresh /\ FromGenerateRefreshToken(last.inAccess)
            /\ ~ExpiryElapsed(last.inAccess, now)) =>
        /\ last.err = OK
        /\ last.outUser = last.inAccess.claims["uName"].s

\* the refresh token of a user nobody created, accepted after its issuance
C23_Witness ==
    /\ VerifyCalled
    /\ last.isRefresh
    /\ FromGenerateRefreshToken(last.inAccess)
    /\ now > 0
    /\ last.err = OK
    /\ ~Known(last.outUser)


\* goroutine p is between Lock's return and its deferred Unlock
InWrite(p) == procs[p].pc \in {"Check", "Range", "Unlock"}

\* goroutine p is between RLock's return and its deferred RUnlock
InRead(p) == procs[p].pc \in {"Read", "RUnlock"}

\* the CreateUser calls for a key that supply every required column
Creators(u) ==
    {p \in Procs : /\ procs[p].op = "CreateUser"
                   /\ Has(procs[p].data, "username")
                   /\ procs[p].data["username"] = u
                   /\ ~MissingRequired(procs[p].data)}

\* C24: in the in-memory store no GetUserInfo (and no other CreateUser) is
\* inside the lock while a CreateUser holds it, and a GetUserInfo concurrent
\* with the CreateUser of the same user returns ErrUserNotFound or works on
\* the complete record of a CreateUser call, never on a partly built one;
\* the table never holds a partly built record.
C24_ExclusiveAndAtomic ==
    /\ \A p, q \in Procs :
          (InWrite(p) /\ p # q) => (~InRead(q) /\ ~InWrite(q))
    /\ \A u \in DOMAIN users :
          \E p \in Creators(u) : users[u] = MemRecord(procs[p].data)
    /\ \A q \in Procs :
          (procs[q].op = "GetUserInfo" /\ procs[q].pc \in {"RUnlock", "done"}) =>
              \/ procs[q].err = ErrUserNotFound
              \/ \E p \in Creators(procs[q].username) :
                    /\ procs[q].err \in {OK, ErrInvalidPassword}
                    /\ procs[q].err = OK =>
                          procs[q].info = MemVisible(MemRecord(procs[p].data))

\* a GetUserInfo waits for the lock while the CreateUser of the same user has
\* built a part of the record
C24_Witness ==
    \E p, q \in Procs :
        /\ procs[p].pc = "Range"
        /\ procs[p].user # EmptyMap
        /\ procs[p].todo # {}
        /\ procs[q].pc = "RLock"
        /\ procs[q].username = procs[p].data["username"]

FailureKind(e) == IF e = ErrSQL THEN ErrUserExists ELSE e

\* C26: for the same schema and the same sequence of CreateUser and
\* GetUserInfo calls the in-memory store and the relational store return the
\* same outcome for each call: the same success or failure kind and, on
\* success, the same field map.
C26_StoresAgree ==
    (CreateCalled \/ GetInfoCalled) =>
        /\ FailureKind(last.memErr) = FailureKind(last.dbErr)
        /\ last.memInfo = last.dbInfo

\* every operation of the store and of the engine, on a store that starts empty
NextAll == Next \/ NextStore

InitAll == InitStore /\ tableCfg = SchemaReadme /\ storeKind = "mem"

SpecAll == InitAll /\ [][NextAll]_vars

\* C27: the record table changes only by a successful CreateUser, which adds
\* exactly the new record; every other call, a failed CreateUser included,
\* leaves the table as it is, no call changes the schema, the secrets or the
\* lifetime, and a record once stored is never modified or removed.
C27_OnlyCreateChangesTable ==
    [][/\ UNCHANGED cfgVars
       /\ \A u \in DOMAIN users : u \in DOMAIN users' /\ users'[u] = users[u]
       /\ rows \subseteq rows'
       /\ users' # users =>
            /\ last'.op = "CreateUser"
            /\ last'.memErr = OK
            /\ DOMAIN users' = DOMAIN users \cup {last'.data["username"]}
            /\ users'[last'.data["username"]] = MemRecord(last'.data)
       /\ rows' # rows =>
            /\ last'.op = "CreateUser"
            /\ last'.dbErr = OK
            /\ rows' = rows \cup {DbRow(last'.data)}
       /\ (last'.op = "CreateUser" /\ last'.op # last.op /\ last'.memErr # OK) =>
            users' = users
       /\ (last'.op = "CreateUser" /\ last'.op # last.op /\ last'.dbErr # OK) =>
            rows' = rows]_vars

\* a token has been renewed for a user created after the store was built, and
\* the table still holds the record as CreateUser stored it
C27_Witness ==
    /\ RefreshCalled
    /\ last.err = OK
    /\ "alice" \in DOMAIN users
    /\ "bob" \in DOMAIN users
    /\ now > 0


\* C31: RefreshToken issues a new access token only when the username of the
\* access token is the username of the verified refresh token, and returns
\* the refresh token's username.
C31_TokensOfOneUser ==
    (RefreshCalled /\ last.err = OK) =>
        /\ IsString(last.inRefresh.claims, "uName")
        /\ IsString(last.inAccess.claims, "username")
        /\ last.inAccess.claims["username"].s = last.inRefresh.claims["uName"].s
        /\ last.outUser = last.inRefresh.claims["uName"].s


(***************************************************************************)
(* The generate-token flow of the transport adapters: the HTTP handler     *)
(* (cmd/server), the gRPC server (internal/grpc) and the CLI (cmd/cli).    *)
(* Each makes the two engine calls within one request.                     *)
(***************************************************************************)
NothingIssued(e) == [err |-> e, access |-> NoToken, refresh |-> NoToken]

\* cmd/server handleGenerateToken: err of GenerateToken is assigned again by
\* GenerateRefreshToken before it is looked at
ServerHandleGenerateToken(username, password, ipAddress, order, t) ==
    LET a == GenerateToken(username, password, order, t)
        r == GenerateRefreshToken(username, ipAddress, t)
    IN  IF r.err # OK THEN NothingIssued(r.err)
        ELSE [err |-> OK, access |-> a.token, refresh |-> r.token]

\* AuthifyGRPCServer.GenerateToken
GrpcGenerateToken(username, password, ipAddress, order, t) ==
    LET a == GenerateToken(username, password, order, t)
        r == GenerateRefreshToken(username, ipAddress, t)
    IN  IF a.err # OK THEN NothingIssued(a.err)
        ELSE IF r.err # OK THEN NothingIssued(r.err)
        ELSE [err |-> OK, access |-> a.token, refresh |-> r.token]

\* cmd/cli handleGenerateToken: log.Fatalf ends the process with the error
CliHandleGenerateToken(username, password, ipAddress, order, t) ==
    LET a == GenerateToken(username, password, order, t)
        r == GenerateRefreshToken(username, ipAddress, t)
    IN  IF a.err # OK THEN NothingIssued(a.err)
        ELSE IF r.err # OK THEN NothingIssued(r.err)
        ELSE [err |-> OK, access |-> a.token, refresh |-> r.token]

\* the caller keeps what the response holds
Respond(op, username, password, ipAddress, res) ==
    /\ acc' = IF res.access # NoToken THEN res.access ELSE acc
    /\ ref' = IF res.refresh # NoToken THEN res.refresh ELSE ref
    /\ last' = [NoCall EXCEPT !.op = op, !.username = username,
                              !.password = password, !.ipAddress = ipAddress,
                              !.err = res.err, !.token = res.access,
                              !.refresh = res.refresh]
    /\ UNCHANGED <<cfgVars, concVars, kept, users, rows, now, sub>>

\* GET /generateToken
DoServerHandleGenerateToken ==
    /\ Idle
    /\ \E username \in Usernames, password \in Passwords,
          ipAddress \in IpAddrs, order \in Orders :
        Respond("server.handleGenerateToken", username, password, ipAddress,
                ServerHandleGenerateToken(username, password, ipAddress, order, now))

\* AuthService.GenerateToken
DoGrpcGenerateToken ==
    /\ Idle
    /\ \E username \in Usernames, password \in Passwords,
          ipAddress \in IpAddrs, order \in Orders :
        Respond("grpc.GenerateToken", username, password, ipAddress,
                GrpcGenerateToken(username, password, ipAddress, order, now))

\* authify-cli generate-token
DoCliHandleGenerateToken ==
    /\ Idle
    /\ \E username \in Usernames, password \in Passwords,
          ipAddress \in IpAddrs, order \in Orders :
        Respond("cli.handleGenerateToken", username, password, ipAddress,
                CliHandleGenerateToken(username, password, ipAddress, order, now))

NextAdapters ==
    \/ CreateUser
    \/ DoServerHandleGenerateToken
    \/ DoGrpcGenerateToken
    \/ DoCliHandleGenerateToken
    \/ Return

\* the adapters in front of an engine whose store starts empty
InitAdapters == InitStore /\ tableCfg = SchemaReadme

SpecAdapters == InitAdapters /\ [][NextAdapters]_vars

FlowCalled ==
    last.op \in {"server.handleGenerateToken", "grpc.GenerateToken", "cli.handleGenerateToken"}

\* C32: in the generate-token flow of every adapter a refresh token is handed
\* to the caller only if GenerateToken succeeded for the credentials of the
\* same request; an unknown user or a wrong password yields no refresh token.
C32_RefreshTokenOnlyAfterLogin ==
    FlowCalled =>
        /\ (~Known(last.username) \/ last.password # PasswordOf(last.username)) =>
              last.refresh = NoToken
        /\ last.refresh # NoToken =>
              (last.err = OK /\ FromGenerateToken(last.token))


\* C33: with a valid refresh token, RefreshToken refuses a validly signed
\* access token without a username claim with ErrMissingUsername and one
\* without a role claim with ErrMissingRole, expired or not; it never issues
\* a token with an empty role and never aborts.
C33_ClaimRequirementsWhenExpired ==
    (RefreshCalled /\ VerifyToken(last.inRefresh, TRUE, now).err = OK
        /\ SignatureVerifies(last.inAccess, accessKey)) =>
        LET claims == last.inAccess.claims
        IN  /\ ~IsString(claims, "username") => last.err = ErrMissingUsername
            /\ (IsString(claims, "username") /\ ~IsString(claims, "role")) =>
                  last.err = ErrMissingRole
            /\ last.err # Panic
            /\ last.err = OK => last.token.claims["role"] # StrV("")


\* the latest instant at which a refresh token with this issued-at claim can
\* have been issued is within the second iat; three days after the start of
\* that second every such instant plus three days has been reached or passed
PastSlidingExpiry(tok, t) ==
    t > tok.claims["iat"].n * TicksPerSec + RefreshDays * DayTicks

C35_ReservedClaimsAreTheEngines ==
    (GenerateCalled /\ last.err = OK) =>
        /\ last.token.claims["exp"] = NumV(Unix(now + tokenDuration))
        /\ last.token.claims["iss"] = StrV(authifyIssuer)



\* the row of the table the call was about
RowOf(username) == CHOOSE r \in rows : r["username"] = username

\* C36: a successful relational GetUserInfo returns, under every column name
\* of the schema, the value stored in that column of the user's row.
C36_EachNameItsOwnValue ==
    (last.op = "GetUserInfo" /\ last.dbErr = OK) =>
        \A c \in Columns : last.dbInfo[c] = Sprint(RowOf(last.username)[c])



\* C37: an access token issued at instant t with lifetime L, carrying the
\* username and the role, is accepted by VerifyToken(_, false) at every
\* instant from t up to t + L, the instant of issuance included, for every
\* L > 0, the lifetimes shorter than a second included.  The instant t + L
\* itself is left out of the quantification.
C37_AcceptedForItsLifetime ==
    (GenerateCalled /\ last.err = OK
        /\ IsString(last.token.claims, "username")
        /\ IsString(last.token.claims, "role")
        /\ IsNumber(last.token.claims, "exp")) =>
        \A t \in now .. (now + tokenDuration - 1) :
            VerifyToken(last.token, FALSE, t).err = OK



(***************************************************************************)
(* A client that keeps the tokens it has renewed with: after a successful  *)
(* RefreshToken it holds the new access token and still has the two tokens *)
(* it presented, and it presents any of them again.                        *)
(***************************************************************************)
HeldAccess == {acc, kept.access} \ {NoToken}

HeldRefresh == {ref, kept.refresh} \ {NoToken}

\* JWTManager.VerifyToken(tokenStr, isRefresh) on a token the client holds or kept
DoVerifyTokenKept ==
    /\ Idle
    /\ \E isRefresh \in BOOLEAN :
        \E tok \in IF isRefresh THEN HeldRefresh ELSE HeldAccess :
            LET res == VerifyToken(tok, isRefresh, now)
            IN  /\ last' = [NoCall EXCEPT !.op = "VerifyToken", !.isRefresh = isRefresh,
                                          !.inAccess = tok, !.err = res.err,
                                          !.outUser = res.username,
                                          !.outRole = res.role]
                /\ UNCHANGED <<cfgVars, concVars, kept, users, rows, now, sub, acc, ref>>

\* RefreshToken that replaces the access secret when it renews
DoRefreshTokenKeeping_RotatesSecret ==
    /\ Idle
    /\ sub <= MaxSub
    /\ \E accessToken \in HeldAccess, refreshToken \in HeldRefresh :
        LET res == RefreshToken(accessToken, refreshToken, now, sub)
        IN  /\ acc' = IF res.err = OK THEN res.token ELSE acc
            /\ kept' = IF res.err = OK
                       THEN [access |-> accessToken, refresh |-> refreshToken]
                       ELSE kept
            /\ sub' = IF res.err = OK THEN sub + 1 ELSE sub
            /\ last' = [NoCall EXCEPT !.op = "RefreshToken", !.inAccess = accessToken,
                                      !.inRefresh = refreshToken, !.err = res.err,
                                      !.token = res.token, !.outUser = res.username]
            /\ accessKey' = IF res.err = OK THEN "rotated-secret" ELSE accessKey
            /\ UNCHANGED <<tableCfg, storeKind, refreshKey, tokenDuration,
                           concVars, users, rows, now, ref>>

\* JWTManager.RefreshToken(accessToken, refreshToken) with tokens the client
\* holds or kept; it takes the new access token and keeps the two it presented
DoRefreshTokenKeeping ==
    /\ Idle
    /\ sub <= MaxSub
    /\ \E accessToken \in HeldAccess, refreshToken \in HeldRefresh :
        LET res == RefreshToken(accessToken, refreshToken, now, sub)
        IN  /\ acc' = IF res.err = OK THEN res.token ELSE acc
            /\ kept' = IF res.err = OK
                       THEN [access |-> accessToken, refresh |-> refreshToken]
                       ELSE kept
            /\ sub' = IF res.err = OK THEN sub + 1 ELSE sub
            /\ last' = [NoCall EXCEPT !.op = "RefreshToken", !.inAccess = accessToken,
                                      !.inRefresh = refreshToken, !.err = res.err,
                                      !.token = res.token, !.outUser = res.username]
            /\ UNCHANGED <<cfgVars, concVars, users, rows, now, ref>>

NextKept ==
    \/ DoGenerateToken
    \/ DoGenerateRefreshToken
    \/ DoVerifyTokenKept
    \/ DoRefreshTokenKeeping
    \/ Return
    \/ Tick

\* tokens of two seconds, so that a kept token outlives its renewal
InitKept ==
    /\ Init
    /\ tableCfg = SchemaReadme
    /\ storeKind = "mem"
    /\ tokenDuration = 2 * TicksPerSec

SpecKept == InitKept /\ [][NextKept]_vars

\* the client has renewed a token
HasRenewed == kept.access # NoToken

\* C38: RefreshToken revokes nothing.  After a successful renewal the access
\* token that was presented, while it has not expired, is accepted by
\* VerifyToken, and it and the refresh token that was presented, while that
\* has not expired, renew again; what VerifyToken returns depends on the
\* token and the time only.
C38_NothingRevoked ==
    /\ (VerifyCalled /\ HasRenewed /\ ~last.isRefresh /\ last.inAccess = kept.access
            /\ ~ExpiryElapsed(kept.access, now)) =>
          last.err = OK
    /\ (VerifyCalled /\ HasRenewed /\ last.isRefresh /\ last.inAccess = kept.refresh
            /\ ~ExpiryElapsed(kept.refresh, now)) =>
          last.err = OK
    /\ (RefreshCalled /\ HasRenewed /\ last.inAccess = kept.access
            /\ last.inRefresh = kept.refresh /\ ~ExpiryElapsed(kept.refresh, now)) =>
          last.err = OK
    /\ VerifyCalled => Verdict = VerifyToken(last.inAccess, last.isRefresh, now)

\* an access token that a renewal has replaced is verified before its expiry
C38_Witness ==
    /\ VerifyCalled
    /\ ~last.isRefresh
    /\ HasRenewed
    /\ last.inAccess = kept.access
    /\ acc # kept.access
    /\ Has(acc.claims, "refreshed_at")
    /\ ~ExpiryElapsed(kept.access, now)
    /\ last.err = OK

====
